---- MODULE Spec2Model ----
(***************************************************************************)
(* Model of app/api/routers/audio.py: the TranscriptionListener event     *)
(* sink, get_authenticator, the transcribe_audio_file orchestrator and    *)
(* the /audio/transcriptions endpoint.                                    *)
(*                                                                         *)
(* The orchestrator is an asyncio coroutine: it runs atomically between   *)
(* two awaits, and the backend's callbacks (run by the connect task on    *)
(* the same event loop) are delivered only while it is suspended.         *)
(***************************************************************************)
EXTENDS Integers, Sequences, FiniteSets, TLC

VARIABLES
    pc,              \* position of the request in the endpoint / orchestrator
    caller,          \* "direct", "endpoint" or "none" (listener on its own)
    audio_len,       \* len(audio_data)
    compartment_id,  \* Optional[str] : <<>> is None, <<s>> is the string s
    language,        \* Optional[str]
    response_format, \* form field of the endpoint
    listener,        \* fields of the TranscriptionListener
    close_flag,      \* client.close_flag
    signer,          \* <<>> until get_authenticator returned, then <<kind>>
    creds,           \* the credential material of ~/.oci: [token, keypair,
                     \* cause], which paths of get_authenticator load
    client,          \* FALSE until RealtimeSpeechClient(...) was constructed
    calls,           \* backend operations invoked on the client, in order
    pos,             \* read position of audio_stream (io.BytesIO)
    i,               \* completion poll: iterations over so far (0 outside the loop)
    poll_exhausted,  \* the completion poll ran all its iterations
    exc,             \* exception in flight
    thrown,          \* <<>> or <<[at, exc, ncalls]>>: first raise inside the try
    result,          \* outcome of transcribe_audio_file
    response,        \* outcome of the endpoint
    delivered        \* backend events delivered to the listener, in order

vars == <<pc, caller, audio_len, compartment_id, language, response_format,
          listener, close_flag, signer, creds, client, calls, pos, i,
          poll_exhausted, exc,
          thrown, result, response, delivered>>

(***************************************************************************)
(* Bounds                                                                  *)
(***************************************************************************)
MaxEvents == 2
MaxEndpointEvents == 1
MaxListenerEvents == 3
MaxLiveEvents == 1
MaxChunks == 2

(***************************************************************************)
(* Program constants                                                       *)
(***************************************************************************)
chunk_size == 65536
timeout == 30
PollLimit == timeout * 10

(***************************************************************************)
(* Python values                                                           *)
(***************************************************************************)
None == <<>>
Some(s) == <<s>>
\* truthiness of an Optional[str]: None and "" are falsy
Truthy(o) == o # None /\ o[1] # ""

Exc(cls, msg) == [cls |-> cls, msg |-> msg, status |-> 0]
HTTPException(status, detail) ==
    [cls |-> "HTTPException", msg |-> detail, status |-> status]
NoExc == [cls |-> "", msg |-> "", status |-> 0]

RECURSIVE Join(_, _)
\* sep.join(parts)
Join(sep, parts) ==
    IF parts = <<>> THEN ""
    ELSE IF Len(parts) = 1 THEN parts[1]
    ELSE parts[1] \o sep \o Join(sep, Tail(parts))

(***************************************************************************)
(* Inputs                                                                  *)
(***************************************************************************)
Texts == {"hello world", "hi"}
\* no chunk, full chunks only, full chunks and a shorter last one
AudioLens == {0, (MaxChunks - 1) * chunk_size, (MaxChunks - 1) * chunk_size + 1}
Compartments == {None, Some(""), Some("ocid1.compartment")}
Languages == {None, Some("fr-FR")}
Formats == {"json", "text", "srt", "verbose_json", "bogus"}
BackendErrors == {Exc("ConnectionError", "socket closed")}

Event(kind, shape, text, isFinal) ==
    [kind |-> kind, shape |-> shape, text |-> text, isFinal |-> isFinal]
\* on_result payloads: a first candidate with text and isFinal, a payload
\* without candidates, and a payload that is not a mapping
ResultEvents ==
    {Event("on_result", "ok", t, f) : t \in Texts, f \in BOOLEAN}
      \cup {Event("on_result", "empty", "", FALSE),
            Event("on_result", "malformed", "", FALSE)}
\* on_error payloads: a string, None, and an exception without arguments
ErrorEvents ==
    {Event("on_error", "str", "boom", FALSE),
     Event("on_error", "none", "", FALSE),
     Event("on_error", "exc", "", FALSE)}
OtherEvents ==
    {Event(k, "", "", FALSE) :
        k \in {"on_connect", "on_connect_message", "on_ack_message",
               "on_network_event", "on_close"}}
Events == ResultEvents \cup ErrorEvents \cup OtherEvents

\* str(error) of an on_error payload
Str(ev) ==
    CASE ev.shape = "none" -> "None"
      [] ev.shape = "str" -> ev.text
      [] ev.shape = "exc" -> ev.text
      [] OTHER -> ev.text

(***************************************************************************)
(* TranscriptionListener                                                   *)
(***************************************************************************)
NewListener ==
    [final_transcription |-> "",
     partial_transcriptions |-> <<>>,
     error_message |-> None,
     connected |-> FALSE,
     done |-> FALSE,
     final_chunk |-> FALSE]

\* the partial branch keeps only the latest partial
on_result_overwritesPartial(l, ev) ==
    IF ev.shape = "malformed"
    THEN [l EXCEPT !.error_message =
                       Some("'NoneType' object has no attribute 'get'"),
                   !.done = TRUE]
    ELSE IF ev.shape = "empty" THEN l
    ELSE IF ev.isFinal
    THEN [l EXCEPT !.final_transcription = @ \o ev.text \o " ",
                   !.done = IF l.final_chunk THEN TRUE ELSE @]
    ELSE [l EXCEPT !.partial_transcriptions = <<ev.text>>]

\* the final branch appends the text without the separator
on_result_noSeparator(l, ev) ==
    IF ev.shape = "malformed"
    THEN [l EXCEPT !.error_message =
                       Some("'NoneType' object has no attribute 'get'"),
                   !.done = TRUE]
    ELSE IF ev.shape = "empty" THEN l
    ELSE IF ev.isFinal
    THEN [l EXCEPT !.final_transcription = @ \o ev.text,
                   !.done = IF l.final_chunk THEN TRUE ELSE @]
    ELSE [l EXCEPT !.partial_transcriptions = Append(@, ev.text)]


on_result(l, ev) ==
    IF ev.shape = "malformed"
    THEN \* result.get raises; the handler records str(e) and sets done
         [l EXCEPT !.error_message =
                       Some("'NoneType' object has no attribute 'get'"),
                   !.done = TRUE]
    ELSE IF ev.shape = "empty" THEN l
    ELSE IF ev.isFinal
    THEN [l EXCEPT !.final_transcription = @ \o ev.text \o " ",
                   !.done = IF l.final_chunk THEN TRUE ELSE @]
    ELSE [l EXCEPT !.partial_transcriptions = Append(@, ev.text)]

on_error(l, ev) ==
    [l EXCEPT !.error_message = Some(Str(ev)), !.done = TRUE]

\* a handler that re-initialises the completion flag
on_connect_resets(l) == [l EXCEPT !.connected = TRUE, !.done = FALSE]

on_connect(l) == [l EXCEPT !.connected = TRUE]

on_connect_message(l) == [l EXCEPT !.connected = TRUE]

on_ack_message(l) == l

on_network_event(l) == l

on_close(l) == [l EXCEPT !.done = TRUE]

Handle(l, ev) ==
    CASE ev.kind = "on_result" -> on_result(l, ev)
      [] ev.kind = "on_error" -> on_error(l, ev)
      [] ev.kind = "on_connect" -> on_connect(l)
      [] ev.kind = "on_connect_message" -> on_connect_message(l)
      [] ev.kind = "on_ack_message" -> on_ack_message(l)
      [] ev.kind = "on_network_event" -> on_network_event(l)
      [] ev.kind = "on_close" -> on_close(l)

(***************************************************************************)
(* get_authenticator                                                       *)
(***************************************************************************)
\* the keypair credential is tried first
get_authenticator_keypairFirst(tokenLoads, keypairLoads, cause) ==
    IF keypairLoads THEN [exc |-> NoExc, signer |-> Some("Signer")]
    ELSE IF tokenLoads
    THEN [exc |-> NoExc, signer |-> Some("SecurityTokenSigner")]
    ELSE [exc |-> Exc("RuntimeError",
                      "Unable to authenticate with OCI. Please check your credentials. "
                          \o cause.msg),
          signer |-> None]

\* tokenLoads: the security-token path succeeds; keypairLoads: the config
\* file signer can be built; cause: the exception of the keypair path
get_authenticator(tokenLoads, keypairLoads, cause) ==
    IF tokenLoads THEN [exc |-> NoExc, signer |-> Some("SecurityTokenSigner")]
    ELSE IF keypairLoads THEN [exc |-> NoExc, signer |-> Some("Signer")]
    ELSE [exc |-> Exc("RuntimeError",
                      "Unable to authenticate with OCI. Please check your credentials. "
                          \o cause.msg),
          signer |-> None]

AuthCauses == {Exc("KeyError", "'tenancy'")}
\* what ~/.oci holds: does the security-token path load, does the keypair
\* path load, and the exception of the keypair path when it does not
CredStates ==
    {[token |-> t, keypair |-> k, cause |-> c] :
        t \in BOOLEAN, k \in BOOLEAN, c \in AuthCauses}
\* both credential paths load, or neither does
SessionCreds == {c \in CredStates : c.token = c.keypair}

(***************************************************************************)
(* transcribe_audio_file                                                   *)
(***************************************************************************)
Call(op, lo, hi) == [op |-> op, lo |-> lo, hi |-> hi]
NoResult == [kind |-> "none", value |-> "", exc |-> NoExc]
NoResponse == [status |-> 0, detail |-> "", shape |-> "", text |-> "",
               language |-> None]

\* the coroutine is suspended in an await at these positions
Suspended == {"wait_connect", "send_await", "rfr_await", "poll_sleep", "wait_task"}

\* an exception leaves transcribe_audio_file
Propagate(e) ==
    /\ result' = [kind |-> "raise", value |-> "", exc |-> e]
    /\ exc' = e
    /\ pc' = IF caller = "endpoint" THEN "e_except" ELSE "finished"

\* an exception is raised inside the try block (lines 183-228)
RaiseInTry(e, at, ncalls) ==
    /\ exc' = e
    /\ thrown' = <<[at |-> at, exc |-> e, ncalls |-> ncalls]>>
    /\ pc' = "except"

\* a test for None only: the empty string passes
MissingCompartment_onlyNone(c) == c = None

\* line 160: not compartment_id
MissingCompartment(c) == ~Truthy(c)

\* lines 160-164
Validate ==
    /\ pc = "start"
    /\ IF MissingCompartment(compartment_id)
       THEN /\ Propagate(Exc("ValueError", "compartment_id is required"))
            /\ UNCHANGED listener
       ELSE /\ pc' = "auth"
            /\ listener' = NewListener
            /\ UNCHANGED <<exc, result>>
    /\ UNCHANGED <<poll_exhausted, caller, audio_len, compartment_id, language,
                   response_format,
                   close_flag, signer, creds, client, calls, pos, i, thrown,
                   response, delivered>>

\* lines 167-181: signer, parameters, client object (not yet connected)
Authenticate ==
    /\ pc = "auth"
    /\ LET a == get_authenticator(creds.token, creds.keypair, creds.cause) IN
       IF a.exc # NoExc
       THEN /\ Propagate(a.exc)
            /\ UNCHANGED <<signer, client>>
       ELSE /\ signer' = a.signer
            /\ client' = TRUE
            /\ pc' = "connect"
            /\ UNCHANGED <<exc, result>>
    /\ UNCHANGED <<poll_exhausted, caller, audio_len, compartment_id, language,
                   response_format,
                   listener, close_flag, creds, calls, pos, i, thrown, response,
                   delivered>>

\* line 188: condition of the connection wait
WaitCond == ~listener.connected /\ ~close_flag

\* line 185
Connect ==
    /\ pc = "connect"
    /\ \E o \in {NoExc} \cup BackendErrors :
         IF o = NoExc
         THEN /\ calls' = Append(calls, Call("connect", 0, 0))
              /\ pc' = IF WaitCond THEN "wait_connect" ELSE "stream"
              /\ UNCHANGED <<exc, thrown>>
         ELSE /\ RaiseInTry(o, "connect", Len(calls))
              /\ UNCHANGED calls
    /\ UNCHANGED <<poll_exhausted, caller, audio_len, compartment_id, language,
                   response_format,
                   listener, close_flag, signer, creds, client, pos, i, result,
                   response, delivered>>

\* lines 188-189: wake from the sleep and test the condition again
WaitConnected ==
    /\ pc = "wait_connect"
    /\ pc' = IF WaitCond THEN "wait_connect" ELSE "stream"
    /\ UNCHANGED <<poll_exhausted, caller, audio_len, compartment_id, language,
                   response_format,
                   listener, close_flag, signer, creds, client, calls, pos, i, exc,
                   thrown, result, response, delivered>>

\* the loop test looks at the closure flag only
StreamCond_ignoresDone == ~close_flag

\* line 196: condition of the streaming loop
StreamCond == ~listener.done /\ ~close_flag

\* the slice is not cut at the end of the input
ReadChunk_noClamp(p) == [lo |-> p, hi |-> p + chunk_size]

\* audio_stream.read(chunk_size): the slice [lo, hi) of the input
ReadChunk(p) ==
    [lo |-> p,
     hi |-> IF p + chunk_size <= audio_len THEN p + chunk_size ELSE audio_len]

\* lines 196-201: loop test, read, start of send_data
StreamLoop ==
    /\ pc = "stream"
    /\ LET chunk == ReadChunk(pos) IN
       IF StreamCond /\ chunk.hi > chunk.lo
       THEN /\ calls' = Append(calls, Call("send_data", chunk.lo, chunk.hi))
            /\ pos' = chunk.hi
            /\ pc' = "send_await"
       ELSE /\ pc' = "request_final"
            /\ UNCHANGED <<calls, pos>>
    /\ UNCHANGED <<poll_exhausted, caller, audio_len, compartment_id, language,
                   response_format,
                   listener, close_flag, signer, creds, client, i, exc, thrown,
                   result, response, delivered>>

\* lines 201-202: send_data returns or raises, then the pacing sleep ends
SendReturn ==
    /\ pc = "send_await"
    /\ \E o \in {NoExc} \cup BackendErrors :
         IF o = NoExc
         THEN /\ pc' = "stream"
              /\ UNCHANGED <<exc, thrown>>
         ELSE RaiseInTry(o, "send_data", Len(calls))
    /\ UNCHANGED <<poll_exhausted, caller, audio_len, compartment_id, language,
                   response_format,
                   listener, close_flag, signer, creds, client, calls, pos, i, result,
                   response, delivered>>

\* the final result is requested only while the session is not done
RequestFinal_skipsWhenDone ==
    /\ pc = "request_final"
    /\ calls' = IF listener.done \/ close_flag THEN calls
                ELSE Append(calls, Call("request_final_result", 0, 0))
    /\ pc' = "rfr_await"
    /\ UNCHANGED <<poll_exhausted, caller, audio_len, compartment_id, language,
                   response_format, listener, close_flag, signer, creds,
                   client, pos, i, exc, thrown, result, response, delivered>>

\* line 207: start of request_final_result (line 205 is commented out:
\* final_chunk is not set)
RequestFinal ==
    /\ pc = "request_final"
    /\ calls' = Append(calls, Call("request_final_result", 0, 0))
    /\ pc' = "rfr_await"
    /\ UNCHANGED <<poll_exhausted, caller, audio_len, compartment_id, language,
                   response_format,
                   listener, close_flag, signer, creds, client, pos, i, exc, thrown,
                   result, response, delivered>>

\* the poll has no ceiling: it sleeps for as long as done is false
PollIter_noCeiling(n) ==
    IF ~listener.done
    THEN /\ pc' = "poll_sleep"
         /\ i' = IF n < PollLimit THEN n ELSE 0
         /\ UNCHANGED poll_exhausted
    ELSE /\ pc' = "close"
         /\ i' = 0
         /\ poll_exhausted' = (n = PollLimit)

\* lines 211-214: n iterations are over; either sleep in iteration n+1 or
\* leave the loop
PollIter(n) ==
    IF n < PollLimit /\ ~listener.done
    THEN /\ pc' = "poll_sleep"
         /\ i' = n
         /\ UNCHANGED poll_exhausted
    ELSE /\ pc' = "close"
         /\ i' = 0
         /\ poll_exhausted' = (n = PollLimit)

\* line 207: request_final_result returns or raises
RfrReturn ==
    /\ pc = "rfr_await"
    /\ \E o \in {NoExc} \cup BackendErrors :
         IF o = NoExc
         THEN /\ PollIter(0)
              /\ UNCHANGED <<exc, thrown>>
         ELSE /\ RaiseInTry(o, "request_final_result", Len(calls))
              /\ UNCHANGED <<i, poll_exhausted>>
    /\ UNCHANGED <<caller, audio_len, compartment_id, language, response_format,
                   listener, close_flag, signer, creds, client, calls, pos, result,
                   response, delivered>>

\* line 214: the sleep of one poll iteration ends
PollWake ==
    /\ pc = "poll_sleep"
    /\ PollIter(i + 1)
    /\ UNCHANGED <<caller, audio_len, compartment_id, language, response_format,
                   listener, close_flag, signer, creds, client, calls, pos, exc,
                   thrown, result, response, delivered>>

\* line 217, then the start of wait_for(connect_task, 1.0)
Close ==
    /\ pc = "close"
    /\ calls' = Append(calls, Call("close", 0, 0))
    /\ pc' = "wait_task"
    /\ UNCHANGED <<poll_exhausted, caller, audio_len, compartment_id, language,
                   response_format,
                   listener, close_flag, signer, creds, client, pos, i, exc, thrown,
                   result, response, delivered>>

\* outcomes of wait_for(connect_task, timeout=1.0): the task has finished,
\* the wait times out, or the task's exception is raised
WaitOutcomes == {NoExc, Exc("TimeoutError", "")} \cup BackendErrors

\* no except clause: the timeout of the wait is not caught
Swallowed_nothing(o) == FALSE

\* lines 222-223: except asyncio.TimeoutError: pass
Swallowed(o) == o.cls = "TimeoutError"

\* lines 220-223
WaitTask ==
    /\ pc = "wait_task"
    /\ \E o \in WaitOutcomes :
         IF o = NoExc \/ Swallowed(o)
         THEN /\ pc' = "check_error"
              /\ UNCHANGED <<exc, thrown>>
         ELSE RaiseInTry(o, "wait_for", Len(calls))
    /\ UNCHANGED <<poll_exhausted, caller, audio_len, compartment_id, language,
                   response_format,
                   listener, close_flag, signer, creds, client, calls, pos, i, result,
                   response, delivered>>

\* the partials are preferred to the final transcript
ReturnValue_prefersPartials(l) ==
    IF l.partial_transcriptions # <<>>
    THEN Join(" ", l.partial_transcriptions)
    ELSE l.final_transcription

\* line 228
ReturnValue(l) ==
    IF l.final_transcription # "" THEN l.final_transcription
    ELSE Join(" ", l.partial_transcriptions)

\* lines 225-228
CheckError ==
    /\ pc = "check_error"
    /\ IF Truthy(listener.error_message)
       THEN /\ RaiseInTry(Exc("RuntimeError",
                              "Transcription failed: " \o listener.error_message[1]),
                          "check_error", Len(calls))
            /\ UNCHANGED result
       ELSE /\ result' = [kind |-> "return", value |-> ReturnValue(listener),
                          exc |-> NoExc]
            /\ pc' = IF caller = "endpoint" THEN "e_format" ELSE "finished"
            /\ UNCHANGED <<exc, thrown>>
    /\ UNCHANGED <<poll_exhausted, caller, audio_len, compartment_id, language,
                   response_format,
                   listener, close_flag, signer, creds, client, calls, pos, i,
                   response, delivered>>

\* line 231 without the close: the handler only re-raises
ExceptClose_noClose ==
    /\ pc = "except"
    /\ pc' = "reraise"
    /\ UNCHANGED <<poll_exhausted, caller, audio_len, compartment_id, language,
                   response_format, listener, close_flag, signer, creds, client,
                   calls, pos, i, exc, thrown, result, response, delivered>>

\* lines 230-231
ExceptClose ==
    /\ pc = "except"
    /\ calls' = Append(calls, Call("close", 0, 0))
    /\ pc' = "reraise"
    /\ UNCHANGED <<poll_exhausted, caller, audio_len, compartment_id, language,
                   response_format, listener, close_flag, signer, creds, client, pos,
                   i, exc, thrown, result, response, delivered>>

\* line 232
Reraise ==
    /\ pc = "reraise"
    /\ Propagate(exc)
    /\ UNCHANGED <<poll_exhausted, caller, audio_len, compartment_id, language,
                   response_format, listener, close_flag, signer, creds, client,
                   calls, pos, i, thrown, response, delivered>>

Orchestrator ==
    \/ Validate \/ Authenticate \/ Connect \/ WaitConnected \/ StreamLoop
    \/ SendReturn \/ RequestFinal \/ RfrReturn \/ PollWake \/ Close
    \/ WaitTask \/ CheckError \/ ExceptClose \/ Reraise

(***************************************************************************)
(* The backend: events pushed to the listener, closure of the connection  *)
(***************************************************************************)
Deliver(ev) ==
    /\ listener' = Handle(listener, ev)
    /\ delivered' = Append(delivered, ev)
    /\ UNCHANGED <<poll_exhausted, pc, caller, audio_len, compartment_id,
                   language,
                   response_format, close_flag, signer, creds, client, calls, pos, i,
                   exc, thrown, result, response>>

EventBound == IF caller = "endpoint" THEN MaxEndpointEvents ELSE MaxEvents

BackendEvent ==
    /\ pc \in Suspended
    /\ Len(delivered) < EventBound
    /\ \E ev \in Events : Deliver(ev)

\* the connection reports closure: client.close_flag becomes true
ReportClosure ==
    /\ pc \in Suspended
    /\ ~close_flag
    /\ close_flag' = TRUE
    /\ UNCHANGED <<poll_exhausted, pc, caller, audio_len, compartment_id,
                   language,
                   response_format, listener, signer, creds, client, calls, pos, i,
                   exc, thrown, result, response, delivered>>

(***************************************************************************)
(* Direct call of transcribe_audio_file                                    *)
(***************************************************************************)
InitCall(credStates) ==
    /\ pc = "start"
    /\ caller = "direct"
    /\ audio_len \in AudioLens
    /\ compartment_id \in Compartments
    /\ language = Some("en-US")
    /\ response_format = "json"
    /\ listener = NewListener
    /\ close_flag = FALSE
    /\ signer = None
    /\ creds \in credStates
    /\ client = FALSE
    /\ calls = <<>>
    /\ pos = 0
    /\ i = 0
    /\ poll_exhausted = FALSE
    /\ exc = NoExc
    /\ thrown = <<>>
    /\ result = NoResult
    /\ response = NoResponse
    /\ delivered = <<>>

Init == InitCall(SessionCreds)

Next == Orchestrator \/ BackendEvent \/ ReportClosure

Spec == Init /\ [][Next]_vars

(***************************************************************************)
(* The /audio/transcriptions endpoint                                      *)
(***************************************************************************)
Response(status, detail, shape, text, lang) ==
    [status |-> status, detail |-> detail, shape |-> shape, text |-> text,
     language |-> lang]

\* an exception is raised inside the endpoint's try block (lines 262-306)
RaiseInEndpoint(e) ==
    /\ exc' = e
    /\ pc' = "e_except"

\* lines 264-271: an UploadFile object is always truthy
ReadUpload ==
    /\ pc = "e_start"
    /\ IF audio_len = 0
       THEN RaiseInEndpoint(HTTPException(400, "Empty file provided"))
       ELSE /\ pc' = "e_call"
            /\ UNCHANGED exc
    /\ UNCHANGED <<caller, audio_len, compartment_id, language, response_format,
                   listener, close_flag, signer, creds, client, calls, pos, i,
                   poll_exhausted, thrown, result, response, delivered>>

\* lines 274-284: default language, then the call of transcribe_audio_file
\* with the configured compartment
CallTranscribe ==
    /\ pc = "e_call"
    /\ language' = IF ~Truthy(language) THEN Some("en-US") ELSE language
    /\ pc' = "start"
    /\ UNCHANGED <<caller, audio_len, compartment_id, response_format,
                   listener, close_flag, signer, creds, client, calls, pos, i,
                   poll_exhausted, exc, thrown, result, response, delivered>>

\* lines 287-306
FormatResponse ==
    /\ pc = "e_format"
    /\ LET transcription == result.value IN
       CASE response_format = "json" ->
              /\ response' = Response(200, "", "json", transcription, None)
              /\ pc' = "e_done"
              /\ UNCHANGED exc
         [] response_format = "text" ->
              /\ response' = Response(200, "", "text", transcription, None)
              /\ pc' = "e_done"
              /\ UNCHANGED exc
         [] response_format = "srt" ->
              /\ response' =
                   Response(200, "", "srt",
                            "1\n00:00:00,000 --> 00:00:10,000\n"
                                \o transcription \o "\n", None)
              /\ pc' = "e_done"
              /\ UNCHANGED exc
         [] response_format = "verbose_json" ->
              /\ response' =
                   Response(200, "", "verbose_json", transcription, language)
              /\ pc' = "e_done"
              /\ UNCHANGED exc
         [] OTHER ->
              /\ RaiseInEndpoint(
                   HTTPException(400, "Unsupported response format: "
                                          \o response_format))
              /\ UNCHANGED response
    /\ UNCHANGED <<caller, audio_len, compartment_id, language, response_format,
                   listener, close_flag, signer, creds, client, calls, pos, i,
                   poll_exhausted, thrown, result, delivered>>

\* lines 308-314: the except clauses, tried in order. HTTPException derives
\* from Exception and from neither ValueError nor RuntimeError
MapException(e) ==
    IF e.cls = "ValueError" THEN HTTPException(400, e.msg)
    ELSE IF e.cls = "RuntimeError" THEN HTTPException(500, e.msg)
    ELSE HTTPException(500, "Internal server error")

EndpointExcept ==
    /\ pc = "e_except"
    /\ LET h == MapException(exc) IN
       response' = Response(h.status, h.msg, "error", "", None)
    /\ pc' = "e_done"
    /\ UNCHANGED <<caller, audio_len, compartment_id, language, response_format,
                   listener, close_flag, signer, creds, client, calls, pos, i,
                   poll_exhausted, exc, thrown, result, delivered>>

Endpoint == ReadUpload \/ CallTranscribe \/ FormatResponse \/ EndpointExcept

InitEndpoint ==
    /\ pc = "e_start"
    /\ caller = "endpoint"
    /\ audio_len \in AudioLens
    /\ compartment_id \in Compartments
    /\ language \in Languages
    /\ response_format \in Formats
    /\ listener = NewListener
    /\ close_flag = FALSE
    /\ signer = None
    /\ creds \in SessionCreds
    /\ client = FALSE
    /\ calls = <<>>
    /\ pos = 0
    /\ i = 0
    /\ poll_exhausted = FALSE
    /\ exc = NoExc
    /\ thrown = <<>>
    /\ result = NoResult
    /\ response = NoResponse
    /\ delivered = <<>>

NextEndpoint == Endpoint \/ Orchestrator \/ BackendEvent \/ ReportClosure

SpecEndpoint == InitEndpoint /\ [][NextEndpoint]_vars

(***************************************************************************)
(* A TranscriptionListener on its own, under any sequence of events        *)
(***************************************************************************)
InitListener ==
    /\ pc = "detached"
    /\ caller = "none"
    /\ audio_len = 0
    /\ compartment_id = None
    /\ language = None
    /\ response_format = "json"
    /\ listener = NewListener
    /\ close_flag = FALSE
    /\ signer = None
    /\ creds = [token |-> TRUE, keypair |-> TRUE,
                 cause |-> Exc("KeyError", "'tenancy'")]
    /\ client = FALSE
    /\ calls = <<>>
    /\ pos = 0
    /\ i = 0
    /\ poll_exhausted = FALSE
    /\ exc = NoExc
    /\ thrown = <<>>
    /\ result = NoResult
    /\ response = NoResponse
    /\ delivered = <<>>

ListenerEvent ==
    /\ pc = "detached"
    /\ Len(delivered) < MaxListenerEvents
    /\ \E ev \in Events : Deliver(ev)

NextListener == ListenerEvent

SpecListener == InitListener /\ [][NextListener]_vars

\* the orchestrator's steps are taken as long as one is enabled; the backend
\* may withhold its events and its closure report
FairSpec == Spec /\ WF_vars(Orchestrator)

\* the direct call with its own bound on the backend's events, for the
\* termination properties
LiveEvent ==
    /\ pc \in Suspended
    /\ Len(delivered) < MaxLiveEvents
    /\ \E ev \in Events : Deliver(ev)

NextLive == Orchestrator \/ LiveEvent \/ ReportClosure

LiveSpec == Init /\ [][NextLive]_vars /\ WF_vars(Orchestrator)

\* the direct call under every state of the credential material
InitAuth == InitCall(CredStates)

SpecAuth == InitAuth /\ [][NextLive]_vars


TypeOK ==
    /\ pc \in {"start", "auth", "connect", "wait_connect", "stream",
               "send_await", "request_final", "rfr_await", "poll_sleep",
               "close", "wait_task", "check_error", "except", "reraise",
               "finished",
               "e_start", "e_call", "e_format", "e_except", "e_done",
               "detached"}
    /\ i \in 0..PollLimit
    /\ pos \in 0..audio_len

(***************************************************************************)
(* Properties                                                              *)
(***************************************************************************)
NumCalls(op) == Cardinality({k \in 1..Len(calls) : calls[k].op = op})
\* transcribe_audio_file has returned or raised
Exited == result.kind # "none"
\* the call got as far as the listener-error check of line 225
ReachedCheck == thrown = <<>> \/ thrown[1].at = "check_error"
\* the text line 228 returns for the accumulated state
Accumulated ==
    IF listener.final_transcription # "" THEN listener.final_transcription
    ELSE Join(" ", listener.partial_transcriptions)
TranscriptionError(msg) == Exc("RuntimeError", "Transcription failed: " \o msg)

\* C1: on every exit path of transcribe_audio_file on which the client
\* object exists, close has been invoked exactly once
C1_CloseExactlyOnce ==
    (Exited /\ client) => NumCalls("close") = 1

\* C2: an exception raised inside the try block reaches the caller unchanged,
\* and close is invoked after it was raised and before it propagates
C2_CloseBeforeReraise ==
    (result.kind = "raise" /\ thrown # <<>>) =>
        /\ result.exc = thrown[1].exc
        /\ \E k \in (thrown[1].ncalls + 1)..Len(calls) : calls[k].op = "close"

C2_Witness ==
    /\ result.kind = "raise"
    /\ thrown # <<>>
    /\ thrown[1].at = "send_data"
    /\ result.exc \in BackendErrors

FirstIsError == delivered # <<>> /\ delivered[1].kind = "on_error"
C4_ErrorFirstFails ==
    FirstIsError ~>
        (/\ Exited
         /\ NumCalls("close") >= 1
         /\ (ReachedCheck /\ Truthy(listener.error_message) =>
                /\ result.kind = "raise"
                /\ result.exc = TranscriptionError(listener.error_message[1])))

\* C5: a call that reaches the error check with an error recorded by the
\* listener raises the transcription error wrapping it and returns no text
C5_RecordedErrorRaises ==
    (Exited /\ client /\ ReachedCheck /\ listener.error_message # None) =>
        /\ result.kind = "raise"
        /\ result.exc = TranscriptionError(listener.error_message[1])

\* C6: with compartment_id missing or empty, the call fails with ValueError
\* and resolves no credential, builds no client and makes no backend call
C6_NoCompartmentNoActivity ==
    ~Truthy(compartment_id) =>
        /\ signer = None
        /\ client = FALSE
        /\ calls = <<>>
        /\ delivered = <<>>
        /\ pc \in {"start", "finished"}
        /\ (pc = "finished" =>
               result = [kind |-> "raise", value |-> "",
                         exc |-> Exc("ValueError", "compartment_id is required")])

C6_Witness ==
    /\ compartment_id = Some("")
    /\ pc = "finished"
    /\ result.exc.cls = "ValueError"

\* C7: an upload of zero bytes is answered with 400 "Empty file provided"
\* and transcribe_audio_file is not invoked
C7_EmptyUpload400 ==
    (pc = "e_done" /\ audio_len = 0) =>
        /\ response.status = 400
        /\ response.detail = "Empty file provided"
        /\ result.kind = "none"

\* C8: a response_format other than json, text, srt and verbose_json is
\* answered with 400 "Unsupported response format: <value>" (once the
\* transcription itself has succeeded)
C8_UnsupportedFormat400 ==
    (/\ pc = "e_done"
     /\ result.kind = "return"
     /\ response_format \notin {"json", "text", "srt", "verbose_json"}) =>
        /\ response.status = 400
        /\ response.detail = "Unsupported response format: " \o response_format

\* C9: every failure of the endpoint is mapped by its kind: ValueError and
\* the endpoint's own upload and format checks give 400, RuntimeError gives
\* 500 with its message, anything else 500 "Internal server error"
C9_ErrorMapping ==
    (pc = "e_done" /\ response.shape = "error") =>
        IF exc.cls = "ValueError" THEN
            response.status = 400 /\ response.detail = exc.msg
        ELSE IF exc.cls = "HTTPException" THEN
            response.status = exc.status /\ response.detail = exc.msg
        ELSE IF exc.cls = "RuntimeError" THEN
            response.status = 500 /\ response.detail = exc.msg
        ELSE
            response.status = 500 /\ response.detail = "Internal server error"

\* C10: once an on_error or on_close event has been delivered, done is true
\* after every later event of any kind
Terminal(k) == delivered[k].kind \in {"on_error", "on_close"}
C10_DoneStaysTrue ==
    (\E k \in 1..Len(delivered) : Terminal(k)) => listener.done

C10_Witness ==
    /\ Len(delivered) = 3
    /\ Terminal(1)
    /\ delivered[2].kind = "on_connect"
    /\ delivered[3].kind = "on_result"
    /\ listener.done

\* C11: once done is true, no later event changes final_transcription,
\* partial_transcriptions or error_message
C11_NoMutationAfterDone ==
    [][listener.done =>
          /\ listener'.final_transcription = listener.final_transcription
          /\ listener'.partial_transcriptions = listener.partial_transcriptions
          /\ listener'.error_message = listener.error_message]_vars

\* C12: after a sequence of result events whose first candidates are all
\* non-final, delivered to a fresh listener, final_transcription is empty,
\* partial_transcriptions holds one entry per event with the texts in arrival
\* order, and done is still false
IsPartialResult(ev) == ev.kind = "on_result" /\ ev.shape = "ok" /\ ~ev.isFinal
IsFinalResult(ev) == ev.kind = "on_result" /\ ev.shape = "ok" /\ ev.isFinal
AllPartial == \A k \in 1..Len(delivered) : IsPartialResult(delivered[k])
C12_PartialsAccumulate ==
    AllPartial =>
        /\ listener.final_transcription = ""
        /\ listener.partial_transcriptions =
               [k \in 1..Len(delivered) |-> delivered[k].text]
        /\ ~listener.done

C12_Witness ==
    /\ Len(delivered) = 3
    /\ AllPartial
    /\ delivered[1].text = "hello world"
    /\ delivered[2].text = "hi"
    /\ Len(listener.partial_transcriptions) = 3

\* C13: final_transcription is the concatenation, in arrival order, of the
\* text of every final result event, each followed by one space; no other
\* event contributes to it
RECURSIVE FinalConcat(_)
FinalConcat(s) ==
    IF s = <<>> THEN ""
    ELSE IF IsFinalResult(Head(s))
    THEN Head(s).text \o " " \o FinalConcat(Tail(s))
    ELSE FinalConcat(Tail(s))
C13_FinalIsConcatenation ==
    listener.final_transcription = FinalConcat(delivered)

C13_Witness ==
    /\ Len(delivered) = 3
    /\ IsFinalResult(delivered[1])
    /\ delivered[1].text = "hello world"
    /\ IsPartialResult(delivered[2])
    /\ IsFinalResult(delivered[3])
    /\ delivered[3].text = "hi"
    /\ listener.final_transcription = "hello world hi "

RECURSIVE PartialTexts(_)
\* the texts of the partial result events of a log, in arrival order
PartialTexts(s) ==
    IF s = <<>> THEN <<>>
    ELSE IF IsPartialResult(Head(s))
    THEN <<Head(s).text>> \o PartialTexts(Tail(s))
    ELSE PartialTexts(Tail(s))

\* C14 as stated: a normal return gives the final transcript if it is
\* non-empty and otherwise the plain concatenation of the partials
C14_ReturnsConcatenation ==
    result.kind = "return" =>
        result.value = IF FinalConcat(delivered) # ""
                       THEN FinalConcat(delivered)
                       ELSE Join("", PartialTexts(delivered))

\* C14: a normal return gives the final transcript if it is non-empty (with
\* its trailing separator) and otherwise the partials in arrival order joined
\* by single spaces
C14_ReturnValue ==
    result.kind = "return" =>
        result.value = IF FinalConcat(delivered) # ""
                       THEN FinalConcat(delivered)
                       ELSE Join(" ", PartialTexts(delivered))

C14_Witness ==
    /\ result.kind = "return"
    /\ Len(delivered) = 2
    /\ delivered[1].kind = "on_connect"
    /\ IsFinalResult(delivered[2])
    /\ delivered[2].text = "hello world"
    /\ result.value = "hello world "

\* C15: get_authenticator returns the session-token signer whenever that
\* path loads, otherwise the keypair signer whenever that one loads, and
\* raises the authentication error wrapping the cause only when both fail;
\* then transcribe_audio_file makes no backend call
AuthError(cause) ==
    Exc("RuntimeError",
        "Unable to authenticate with OCI. Please check your credentials. "
            \o cause.msg)
AuthDone == pc \notin {"start", "auth"} /\ Truthy(compartment_id)
C15_AuthenticatorOrder ==
    /\ AuthDone =>
         /\ creds.token => signer = Some("SecurityTokenSigner")
         /\ (~creds.token /\ creds.keypair) => signer = Some("Signer")
         /\ (~creds.token /\ ~creds.keypair) =>
                /\ signer = None
                /\ ~client
                /\ calls = <<>>
                /\ result = [kind |-> "raise", value |-> "",
                             exc |-> AuthError(creds.cause)]
         /\ (creds.token \/ creds.keypair) =>
                ~(result.kind = "raise" /\ thrown = <<>>)
    /\ ~AuthDone => signer = None

C15_Witness ==
    /\ AuthDone
    /\ ~creds.token
    /\ ~creds.keypair
    /\ pc = "finished"
    /\ result.exc.cls = "RuntimeError"
    /\ NumCalls("connect") = 0

\* C16: once request_final_result has been issued, the next final result
\* event delivered to the listener sets done
C16_FinalAfterRequestSetsDone ==
    [][(/\ NumCalls("request_final_result") >= 1
        /\ Len(delivered') = Len(delivered) + 1
        /\ IsFinalResult(delivered'[Len(delivered')]))
          => listener'.done]_vars

\* C17: in a call that built its client and in which no backend call raises,
\* the backend operations are: connect once, then zero or more send_data,
\* then request_final_result once, then close; no send_data follows
\* request_final_result or close
NoBackendRaise == thrown = <<>> \/ thrown[1].at = "check_error"
OpAt(k) == calls[k].op
C17_CallOrder ==
    (client /\ NoBackendRaise) =>
        /\ \A k \in 1..Len(calls) :
             /\ (OpAt(k) = "connect") <=> (k = 1)
             /\ OpAt(k) = "send_data" =>
                    \A j \in 1..(k - 1) : OpAt(j) \in {"connect", "send_data"}
             /\ OpAt(k) = "request_final_result" =>
                    \A j \in 1..(k - 1) : OpAt(j) \in {"connect", "send_data"}
             /\ OpAt(k) = "close" =>
                    \E j \in 1..(k - 1) : OpAt(j) = "request_final_result"
        /\ Exited =>
             /\ NumCalls("connect") = 1
             /\ NumCalls("request_final_result") = 1
             /\ OpAt(Len(calls)) = "close"

C17_Witness ==
    /\ Exited
    /\ NoBackendRaise
    /\ listener.done
    /\ pos < audio_len
    /\ NumCalls("send_data") = 1
    /\ NumCalls("request_final_result") = 1

\* C18: the chunks passed to send_data are consecutive slices of the input
\* of exactly chunk_size bytes each, except a possibly shorter non-empty last
\* one that ends the input; together they are a prefix of the input, and the
\* whole input (ceil(len / chunk_size) sends) when the streaming loop ends
\* with neither done nor closure observed
IsSend(c) == c.op = "send_data"
Sends == SelectSeq(calls, IsSend)
CeilChunks(n) == (n + chunk_size - 1) \div chunk_size
C18_ChunksAreSlices ==
    LET s == Sends
        n == Len(Sends)
    IN /\ \A k \in 1..n :
            /\ s[k].lo = (k - 1) * chunk_size
            /\ s[k].hi > s[k].lo
            /\ s[k].hi <= audio_len
            /\ s[k].hi - s[k].lo = chunk_size \/ (k = n /\ s[k].hi = audio_len)
       /\ n <= CeilChunks(audio_len)
       /\ (pc = "request_final" /\ ~listener.done /\ ~close_flag) =>
            /\ n = CeilChunks(audio_len)
            /\ IF n = 0 THEN audio_len = 0 ELSE s[n].hi = audio_len

C18_Witness ==
    /\ pc = "request_final"
    /\ ~listener.done
    /\ ~close_flag
    /\ audio_len = (MaxChunks - 1) * chunk_size + 1
    /\ Len(Sends) = MaxChunks
    /\ Sends[1].hi - Sends[1].lo = chunk_size
    /\ Sends[MaxChunks].hi - Sends[MaxChunks].lo = 1

\* C20: every send_data call is started in a state where listener.connected
\* is true, listener.done is false and client.close_flag is false
C20_SendOnlyWhenLive ==
    [][(/\ Len(calls') = Len(calls) + 1
        /\ calls'[Len(calls')].op = "send_data")
          => (listener.connected /\ ~listener.done /\ ~close_flag)]_vars

\* a chunk was in flight when a terminal event arrived: no further chunk is
\* sent although input remains
C20_Witness ==
    /\ pc = "request_final"
    /\ listener.connected
    /\ listener.done
    /\ \E k \in 1..Len(delivered) : Terminal(k)
    /\ Len(Sends) = 1
    /\ pos < audio_len

\* C19: once the connection wait has ended, the call terminates (returns or
\* raises) after at most ceil(len / chunk_size) chunk sends and at most
\* PollLimit completion polls, whatever the backend delivers or withholds;
\* in the connection wait it stays for as long as the backend neither
\* connects nor reports closure
C19_BoundedAfterConnect ==
    /\ (pc = "stream") ~> Exited
    /\ [](Len(Sends) <= CeilChunks(audio_len) /\ i < PollLimit)
    /\ [][(pc = "wait_connect" /\ ~listener'.connected /\ ~close_flag')
             => pc' = "wait_connect"]_vars

C19_Witness ==
    /\ Exited
    /\ poll_exhausted
    /\ Len(Sends) = MaxChunks
    /\ result.kind = "return"

====
